---- MODULE Spec2Model ----
(***************************************************************************)
(* Model of bv-graph-wasm's DiGraph (src/bv-graph-wasm/src/graph.rs): the  *)
(* label/index store, the dual adjacency lists, the JSON snapshot and the  *)
(* Kahn topological engine it delegates to (algorithms::topo).             *)
(*                                                                         *)
(* Indices are zero-based as in the source; TLA+ sequences are one-based,  *)
(* so the entry of index i is s[i + 1].                                    *)
(***************************************************************************)
EXTENDS Integers, Sequences, FiniteSets, TLC

\* ------------------------------------------------------------------ bounds

\* The labels callers pass to addNode.  The node set needs no further cap:
\* add_node of a label already present adds nothing.
Labels == {"a", "b", "c"}

NumLabels == Cardinality(Labels)

\* The usize arguments callers pass to addEdge and write into snapshots.
\* NumLabels is out of range in every reachable graph.
Indices == 0..NumLabels

\* Cap on edge_count: addEdge is not called once the cap is reached.
MaxEdges == 3

\* Lengths of the node and edge lists of the snapshots handed to fromJson.
MaxSnapNodes == 2

MaxSnapEdges == 2

\* ------------------------------------------------------------------ state

VARIABLES
    nodes,       \* DiGraph.nodes: Vec<String>
    node_index,  \* DiGraph.node_index: HashMap<String, usize>
    adj,         \* DiGraph.adj: Vec<Vec<usize>>
    rev_adj,     \* DiGraph.rev_adj: Vec<Vec<usize>>
    edge_count,  \* DiGraph.edge_count: usize
    lastOp,      \* the last call made on the graph, its arguments and result
    pc,          \* "idle", or "kahn" while the engine's loop runs
    indeg,       \* the engine's working in-degree counters
    queue,       \* the engine's worklist
    order,       \* the engine's output so far
    firstIdx,    \* history: label -> the index the first addNode(label) returned
    requested,   \* history: the in-range pairs addEdge has been called with
    dagSeen      \* history: what isDag returned since the last mutating call:
                 \* "dag", "cyclic", or "unknown" when it was not called

graphVars == <<nodes, node_index, adj, rev_adj, edge_count>>

kahnVars == <<pc, indeg, queue, order>>

histVars == <<firstIdx, requested, dagSeen>>

vars == <<nodes, node_index, adj, rev_adj, edge_count, lastOp, pc, indeg, queue,
          order, firstIdx, requested, dagSeen>>

\* ------------------------------------------------------------------ DiGraph

\* The graph as one value, for the functions that build or return a graph.
self ==
    [nodes |-> nodes, node_index |-> node_index, adj |-> adj,
     rev_adj |-> rev_adj, edge_count |-> edge_count]

EmptyMap == [l \in {} |-> 0]

new ==
    [nodes |-> <<>>, node_index |-> EmptyMap, adj |-> <<>>, rev_adj |-> <<>>,
     edge_count |-> 0]

\* The capacities only pre-allocate.
with_capacity(node_capacity, edge_capacity) ==
    [nodes |-> <<>>, node_index |-> EmptyMap, adj |-> <<>>, rev_adj |-> <<>>,
     edge_count |-> 0]

\* Vec::contains
contains(v, x) == \E k \in 1..Len(v) : v[k] = x

\* add_node without the early return for a label already present.
add_node_no_lookup(g, id) ==
    LET idx == Len(g.nodes)
    IN  [graph |-> [g EXCEPT !.nodes = Append(@, id),
                             !.node_index = (id :> idx) @@ @,
                             !.adj = Append(@, <<>>),
                             !.rev_adj = Append(@, <<>>)],
         idx |-> idx]

\* add_node taking the new index after the push instead of before it.
add_node_late_index(g, id) ==
    IF id \in DOMAIN g.node_index
    THEN [graph |-> g, idx |-> g.node_index[id]]
    ELSE LET idx == Len(g.nodes) + 1
         IN  [graph |-> [g EXCEPT !.nodes = Append(@, id),
                                  !.node_index = (id :> idx) @@ @,
                                  !.adj = Append(@, <<>>),
                                  !.rev_adj = Append(@, <<>>)],
              idx |-> idx]

\* Returns the graph after the call and the index returned.
add_node(g, id) ==
    IF id \in DOMAIN g.node_index
    THEN [graph |-> g, idx |-> g.node_index[id]]
    ELSE LET idx == Len(g.nodes)
         IN  [graph |-> [g EXCEPT !.nodes = Append(@, id),
                                  !.node_index = (id :> idx) @@ @,
                                  !.adj = Append(@, <<>>),
                                  !.rev_adj = Append(@, <<>>)],
              idx |-> idx]

\* add_edge pushing onto the reverse list of the source instead of the target.
add_edge_rev_on_source(g, from, to) ==
    IF from >= Len(g.nodes) \/ to >= Len(g.nodes)
    THEN g
    ELSE IF contains(g.adj[from + 1], to)
    THEN g
    ELSE [g EXCEPT !.adj[from + 1] = Append(@, to),
                   !.rev_adj[from + 1] = Append(@, to),
                   !.edge_count = @ + 1]

\* add_edge without the scan for an edge already present.
add_edge_no_scan(g, from, to) ==
    IF from >= Len(g.nodes) \/ to >= Len(g.nodes)
    THEN g
    ELSE [g EXCEPT !.adj[from + 1] = Append(@, to),
                   !.rev_adj[to + 1] = Append(@, from),
                   !.edge_count = @ + 1]

\* add_edge whose bounds check forgets the target.
add_edge_unchecked_target(g, from, to) ==
    IF from >= Len(g.nodes)
    THEN g
    ELSE IF contains(g.adj[from + 1], to)
    THEN g
    ELSE [g EXCEPT !.adj[from + 1] = Append(@, to),
                   !.edge_count = @ + 1]

\* add_edge that never records the edge in the reverse list.
add_edge_no_rev(g, from, to) ==
    IF from >= Len(g.nodes) \/ to >= Len(g.nodes)
    THEN g
    ELSE IF contains(g.adj[from + 1], to)
    THEN g
    ELSE [g EXCEPT !.adj[from + 1] = Append(@, to),
                   !.edge_count = @ + 1]

\* add_edge storing the edge in the opposite direction.
add_edge_swapped(g, from, to) ==
    IF from >= Len(g.nodes) \/ to >= Len(g.nodes)
    THEN g
    ELSE IF contains(g.adj[to + 1], from)
    THEN g
    ELSE [g EXCEPT !.adj[to + 1] = Append(@, from),
                   !.rev_adj[from + 1] = Append(@, to),
                   !.edge_count = @ + 1]

\* add_edge scanning the target's forward list for the source.
add_edge_scan_reverse(g, from, to) ==
    IF from >= Len(g.nodes) \/ to >= Len(g.nodes)
    THEN g
    ELSE IF contains(g.adj[to + 1], from)
    THEN g
    ELSE [g EXCEPT !.adj[from + 1] = Append(@, to),
                   !.rev_adj[to + 1] = Append(@, from),
                   !.edge_count = @ + 1]

\* add_edge inserting the new neighbour at the front of both lists.
add_edge_push_front(g, from, to) ==
    IF from >= Len(g.nodes) \/ to >= Len(g.nodes)
    THEN g
    ELSE IF contains(g.adj[from + 1], to)
    THEN g
    ELSE [g EXCEPT !.adj[from + 1] = <<to>> \o @,
                   !.rev_adj[to + 1] = <<from>> \o @,
                   !.edge_count = @ + 1]

add_edge(g, from, to) ==
    IF from >= Len(g.nodes) \/ to >= Len(g.nodes)
    THEN g
    ELSE IF contains(g.adj[from + 1], to)
    THEN g
    ELSE [g EXCEPT !.adj[from + 1] = Append(@, to),
                   !.rev_adj[to + 1] = Append(@, from),
                   !.edge_count = @ + 1]

node_count(g) == Len(g.nodes)

\* Option<String>: [some |-> FALSE] is None.
node_id(g, idx) ==
    IF idx < Len(g.nodes) THEN [some |-> TRUE, val |-> g.nodes[idx + 1]]
    ELSE [some |-> FALSE]

\* Option<usize>
node_idx(g, id) ==
    IF id \in DOMAIN g.node_index THEN [some |-> TRUE, val |-> g.node_index[id]]
    ELSE [some |-> FALSE]

\* out_degree clamping the index to the last node instead of answering 0.
out_degree_clamped(g, node) ==
    IF Len(g.adj) = 0 THEN 0
    ELSE IF node < Len(g.adj) THEN Len(g.adj[node + 1])
    ELSE Len(g.adj[Len(g.adj)])

out_degree(g, node) == IF node < Len(g.adj) THEN Len(g.adj[node + 1]) ELSE 0

\* in_degree reading the forward lists.
in_degree_of_adj(g, node) == IF node < Len(g.adj) THEN Len(g.adj[node + 1]) ELSE 0

in_degree(g, node) == IF node < Len(g.rev_adj) THEN Len(g.rev_adj[node + 1]) ELSE 0

\* The array handed to the caller; the empty array when out of range.
successors(g, node) == IF node < Len(g.adj) THEN g.adj[node + 1] ELSE <<>>

predecessors(g, node) == IF node < Len(g.rev_adj) THEN g.rev_adj[node + 1] ELSE <<>>

\* successors_slice reading the list of the next node.
successors_slice_shifted(g, node) ==
    IF node + 1 < Len(g.adj) THEN g.adj[node + 2] ELSE <<>>

successors_slice(g, node) == IF node < Len(g.adj) THEN g.adj[node + 1] ELSE <<>>

\* predecessors_slice answering the empty slice for every node.
predecessors_slice_empty(g, node) == <<>>

predecessors_slice(g, node) ==
    IF node < Len(g.rev_adj) THEN g.rev_adj[node + 1] ELSE <<>>

\* edges yielding (to, from) instead of (from, to).
RECURSIVE edges_upto_swapped(_, _)
edges_upto_swapped(g, n) ==
    IF n = 0 THEN <<>>
    ELSE edges_upto_swapped(g, n - 1)
         \o [k \in 1..Len(g.adj[n]) |-> <<g.adj[n][k], n - 1>>]

\* edges walking each source's targets from the last to the first.
RECURSIVE edges_upto_targets_reversed(_, _)
edges_upto_targets_reversed(g, n) ==
    IF n = 0 THEN <<>>
    ELSE edges_upto_targets_reversed(g, n - 1)
         \o [k \in 1..Len(g.adj[n]) |-> <<n - 1, g.adj[n][Len(g.adj[n]) + 1 - k]>>]

\* The edges of the sources 0..n-1: each source's targets in list order,
\* the sources in index order.
RECURSIVE edges_upto(_, _)
edges_upto(g, n) ==
    IF n = 0 THEN <<>>
    ELSE edges_upto(g, n - 1)
         \o [k \in 1..Len(g.adj[n]) |-> <<n - 1, g.adj[n][k]>>]

edges(g) == edges_upto(g, Len(g.adj))

edges_vec(g) == edges(g)

\* The GraphSnapshot that is serialized.
to_json(g) == [nodes |-> g.nodes, edges |-> edges_vec(g)]

\* The node loop walking the list from its last label to its first.
RECURSIVE add_nodes_reversed(_, _)
add_nodes_reversed(g, ids) ==
    IF ids = <<>> THEN g
    ELSE add_nodes_reversed(add_node(g, ids[Len(ids)]).graph, SubSeq(ids, 1, Len(ids) - 1))

\* for id in snapshot.nodes { graph.add_node(&id); }
RECURSIVE add_nodes(_, _)
add_nodes(g, ids) ==
    IF ids = <<>> THEN g
    ELSE add_nodes(add_node(g, Head(ids)).graph, Tail(ids))

\* for (from, to) in snapshot.edges { graph.add_edge(from, to); }
RECURSIVE add_edges(_, _)
add_edges(g, es) ==
    IF es = <<>> THEN g
    ELSE add_edges(add_edge(g, Head(es)[1], Head(es)[2]), Tail(es))

\* from_json replaying the edges before the nodes.
from_json_edges_first(snapshot) ==
    add_nodes(add_edges(with_capacity(Len(snapshot.nodes), Len(snapshot.edges)),
                        snapshot.edges),
              snapshot.nodes)

\* The graph a parseable snapshot is rebuilt into.
from_json(snapshot) ==
    add_edges(add_nodes(with_capacity(Len(snapshot.nodes), Len(snapshot.edges)),
                        snapshot.nodes),
              snapshot.edges)

\* ------------------------------------------------------------------ topo

\* Kahn's algorithm of algorithms::topo, which topological_sort and is_dag
\* delegate to.  The in-degrees come from the reverse adjacency.
initial_in_degree(g) == [i \in 1..Len(g.nodes) |-> Len(predecessors_slice(g, i - 1))]

\* The zero-in-degree nodes among the indices 0..n-1, ascending.
RECURSIVE zero_in_degree_upto(_, _)
zero_in_degree_upto(deg, n) ==
    IF n = 0 THEN <<>>
    ELSE LET rest == zero_in_degree_upto(deg, n - 1)
         IN  IF deg[n] = 0 THEN Append(rest, n - 1) ELSE rest

initial_queue(deg) == zero_in_degree_upto(deg, Len(deg))

\* For each successor of the removed node, in list order: decrement its
\* counter and enqueue it when the counter reaches zero.
RECURSIVE relax(_, _, _)
relax(succs, deg, q) ==
    IF succs = <<>> THEN [indeg |-> deg, queue |-> q]
    ELSE LET v == Head(succs)
             d == deg[v + 1] - 1
         IN  relax(Tail(succs), [deg EXCEPT ![v + 1] = d],
                   IF d = 0 THEN Append(q, v) ELSE q)

RemoveAt(q, k) == SubSeq(q, 1, k - 1) \o SubSeq(q, k + 1, Len(q))

\* Option<Vec<usize>>: the order when every node was output, None otherwise.
sort_result(g, out) ==
    IF Len(out) = Len(g.nodes) THEN [some |-> TRUE, val |-> out]
    ELSE [some |-> FALSE]

dag_result(g, out) == Len(out) = Len(g.nodes)

\* The wasm wrapper with a conversion that turns an empty order into null.
topological_sort_empty_as_null(result) ==
    IF result.some /\ result.val # <<>> THEN [some |-> TRUE, val |-> result.val]
    ELSE [some |-> FALSE]

\* The wasm wrapper: Some(order) becomes the array of the order, None
\* becomes null ([some |-> FALSE]).
topological_sort(result) ==
    IF result.some THEN [some |-> TRUE, val |-> result.val]
    ELSE [some |-> FALSE]

\* ------------------------------------------------------------------ inputs

SeqsUpTo(S, n) == UNION {[1..k -> S] : k \in 0..n}

Snapshots ==
    [nodes : SeqsUpTo(Labels, MaxSnapNodes),
     edges : SeqsUpTo(Indices \X Indices, MaxSnapEdges)]

\* ------------------------------------------------------------------ history

\* The index each label's first add_node returned while ids were replayed.
RECURSIVE AssignedBy(_, _, _)
AssignedBy(g, ids, fi) ==
    IF ids = <<>> THEN fi
    ELSE LET r == add_node(g, Head(ids))
         IN  AssignedBy(r.graph, Tail(ids),
                        IF Head(ids) \in DOMAIN fi THEN fi
                        ELSE (Head(ids) :> r.idx) @@ fi)

Range(s) == {s[k] : k \in 1..Len(s)}

\* ------------------------------------------------------------------ actions

SetGraph(g) ==
    /\ nodes' = g.nodes
    /\ node_index' = g.node_index
    /\ adj' = g.adj
    /\ rev_adj' = g.rev_adj
    /\ edge_count' = g.edge_count

Init ==
    /\ nodes = new.nodes
    /\ node_index = new.node_index
    /\ adj = new.adj
    /\ rev_adj = new.rev_adj
    /\ edge_count = new.edge_count
    /\ lastOp = [op |-> "new"]
    /\ pc = "idle"
    /\ indeg = <<>>
    /\ queue = <<>>
    /\ order = <<>>
    /\ firstIdx = EmptyMap
    /\ requested = {}
    /\ dagSeen = "unknown"

AddNode(id) ==
    /\ pc = "idle"
    /\ LET r == add_node(self, id)
       IN  /\ SetGraph(r.graph)
           /\ lastOp' = [op |-> "addNode", id |-> id, ret |-> r.idx]
           /\ firstIdx' = IF id \in DOMAIN firstIdx THEN firstIdx
                          ELSE (id :> r.idx) @@ firstIdx
    /\ dagSeen' = "unknown"
    /\ UNCHANGED <<kahnVars, requested>>

AddEdge(from, to) ==
    /\ pc = "idle"
    /\ edge_count < MaxEdges
    /\ SetGraph(add_edge(self, from, to))
    /\ lastOp' = [op |-> "addEdge", from |-> from, to |-> to]
    /\ requested' = IF from < Len(nodes) /\ to < Len(nodes)
                    THEN requested \cup {<<from, to>>}
                    ELSE requested
    /\ dagSeen' = "unknown"
    /\ UNCHANGED <<kahnVars, firstIdx>>

ToJson ==
    /\ pc = "idle"
    /\ lastOp' = [op |-> "toJson", ret |-> to_json(self)]
    /\ UNCHANGED <<graphVars, kahnVars, histVars>>

\* The read-only queries that take an index, asked for one index.
QueryIndex(node) ==
    /\ pc = "idle"
    /\ lastOp' = [op |-> "queryIndex", node |-> node,
                  nodeId |-> node_id(self, node),
                  outDegree |-> out_degree(self, node),
                  inDegree |-> in_degree(self, node),
                  successors |-> successors(self, node),
                  predecessors |-> predecessors(self, node)]
    /\ UNCHANGED <<graphVars, kahnVars, histVars>>

\* nodeIdx, the query that takes a label.
QueryLabel(id) ==
    /\ pc = "idle"
    /\ lastOp' = [op |-> "queryLabel", id |-> id, nodeIdx |-> node_idx(self, id)]
    /\ UNCHANGED <<graphVars, kahnVars, histVars>>

\* The graph is replaced by the one fromJson returns.
FromJson(snapshot) ==
    /\ pc = "idle"
    /\ LET g == from_json(snapshot)
       IN  /\ SetGraph(g)
           /\ firstIdx' = AssignedBy(new, snapshot.nodes, EmptyMap)
           /\ requested' = {e \in Range(snapshot.edges) :
                               e[1] < Len(g.nodes) /\ e[2] < Len(g.nodes)}
    /\ lastOp' = [op |-> "fromJson", snapshot |-> snapshot]
    /\ dagSeen' = "unknown"
    /\ UNCHANGED kahnVars

\* fromJson is a constructor: a program starts from new() or from a snapshot
\* it was handed.
FromJsonInput ==
    /\ lastOp.op = "new"
    /\ \E s \in Snapshots : FromJson(s)

FromJsonExported ==
    /\ lastOp.op = "toJson"
    /\ FromJson(lastOp.ret)

\* topologicalSort and isDag start the same loop.
KahnStart(op) ==
    /\ pc = "idle"
    /\ pc' = "kahn"
    /\ indeg' = initial_in_degree(self)
    /\ queue' = initial_queue(initial_in_degree(self))
    /\ order' = <<>>
    /\ lastOp' = [op |-> op, done |-> FALSE]
    /\ UNCHANGED <<graphVars, histVars>>

\* topologicalSort taking the reverse lists out of the graph to count them.
TopologicalSortDraining ==
    /\ pc = "idle"
    /\ pc' = "kahn"
    /\ indeg' = initial_in_degree(self)
    /\ queue' = initial_queue(initial_in_degree(self))
    /\ order' = <<>>
    /\ lastOp' = [op |-> "topologicalSort", done |-> FALSE]
    /\ rev_adj' = [i \in 1..Len(rev_adj) |-> <<>>]
    /\ UNCHANGED <<nodes, node_index, adj, edge_count, histVars>>

TopologicalSort == KahnStart("topologicalSort")

IsDag == KahnStart("isDag")

\* One iteration: a node leaves the worklist and is output, its successors
\* are relaxed.  Which pending node leaves is left open: every worklist
\* discipline is a behaviour of this action.
KahnStep ==
    /\ pc = "kahn"
    /\ queue # <<>>
    /\ \E k \in 1..Len(queue) :
          LET node == queue[k]
              r == relax(successors_slice(self, node), indeg, RemoveAt(queue, k))
          IN  /\ order' = Append(order, node)
              /\ indeg' = r.indeg
              /\ queue' = r.queue
    /\ UNCHANGED <<graphVars, histVars, lastOp, pc>>

\* The worklist is empty: the call returns and its locals are dropped.
KahnReturn ==
    /\ pc = "kahn"
    /\ queue = <<>>
    /\ lastOp' = IF lastOp.op = "isDag"
                 THEN [op |-> "isDag", done |-> TRUE, ret |-> dag_result(self, order)]
                 ELSE [op |-> "topologicalSort", done |-> TRUE,
                       ret |-> topological_sort(sort_result(self, order))]
    /\ dagSeen' = IF lastOp.op = "isDag"
                  THEN (IF dag_result(self, order) THEN "dag" ELSE "cyclic")
                  ELSE dagSeen
    /\ pc' = "idle"
    /\ indeg' = <<>>
    /\ queue' = <<>>
    /\ order' = <<>>
    /\ UNCHANGED <<graphVars, firstIdx, requested>>

Next ==
    \/ \E id \in Labels : AddNode(id)
    \/ \E from \in Indices, to \in Indices : AddEdge(from, to)
    \/ \E node \in Indices : QueryIndex(node)
    \/ \E id \in Labels : QueryLabel(id)
    \/ ToJson
    \/ FromJsonInput
    \/ FromJsonExported
    \/ TopologicalSort
    \/ IsDag
    \/ KahnStep
    \/ KahnReturn

Spec == Init /\ [][Next]_vars

\* ------------------------------------------------------------------ claims

\* The edges held by forward lists a: (u, v) for every v in u's list.
EdgeSet(a) == {e \in (0..(Len(a) - 1)) \X (0..(Len(a) - 1)) : contains(a[e[1] + 1], e[2])}

NodeIdx == 0..(Len(nodes) - 1)

\* C1: in every reachable state, for all node indices u and v below
\* nodeCount, v appears in u's forward list if and only if u appears in v's
\* reverse list.
C1_AdjacencyLockStep ==
    \A u \in NodeIdx, v \in NodeIdx :
        contains(adj[u + 1], v) <=> contains(rev_adj[v + 1], u)

\* A graph built with a self-loop and another edge, after a call that was
\* ignored (out of range or duplicate).
C1_Witness ==
    /\ lastOp.op = "addEdge"
    /\ requested # EdgeSet(adj) \/ lastOp.from >= Len(nodes)
    /\ \E u \in NodeIdx : contains(adj[u + 1], u)
    /\ edge_count >= 2

\* C2: addNode(label) with a label already present returns the index the
\* label was first assigned and leaves nodeCount, edgeCount, the label list
\* and both adjacency lists unchanged.
C2_AddNodeIdempotent ==
    [][(lastOp'.op = "addNode" /\ lastOp'.id \in DOMAIN firstIdx)
         => /\ lastOp'.ret = firstIdx[lastOp'.id]
            /\ UNCHANGED graphVars]_vars

\* A label other than the last inserted one was added again, on a graph
\* that has edges.
C2_Witness ==
    /\ lastOp.op = "addNode"
    /\ lastOp.ret + 1 < Len(nodes)
    /\ edge_count > 0

\* C3: for an in-range pair (u, v), u = v included, whose edge is not yet
\* present, the first addEdge(u, v) adds the edge (edgeCount + 1, v appended
\* to u's forward list, u to v's reverse list) and leaves it present, and an
\* addEdge(u, v) of an edge that is present, as the second of two consecutive
\* calls is, changes nothing.
C3_AddEdgeTwice ==
    /\ [](lastOp.op = "addEdge" /\ lastOp.from < Len(nodes) /\ lastOp.to < Len(nodes)
            => contains(adj[lastOp.from + 1], lastOp.to))
    /\ [][(lastOp'.op = "addEdge" /\ lastOp'.from < Len(nodes) /\ lastOp'.to < Len(nodes))
            => IF contains(adj[lastOp'.from + 1], lastOp'.to)
               THEN UNCHANGED graphVars
               ELSE /\ edge_count' = edge_count + 1
                    /\ adj' = [adj EXCEPT ![lastOp'.from + 1] = Append(@, lastOp'.to)]
                    /\ rev_adj' = [rev_adj EXCEPT ![lastOp'.to + 1] = Append(@, lastOp'.from)]
                    /\ UNCHANGED <<nodes, node_index>>]_vars

\* A self-loop was added by addEdge to a graph that already had an edge.
C3_Witness ==
    /\ lastOp.op = "addEdge"
    /\ lastOp.from = lastOp.to
    /\ lastOp.from < Len(nodes)
    /\ adj[lastOp.from + 1][Len(adj[lastOp.from + 1])] = lastOp.to
    /\ edge_count >= 2

\* C4: addEdge(u, v) with u >= nodeCount or v >= nodeCount leaves nodeCount,
\* edgeCount, the label list and every forward and reverse list unchanged.
C4_OutOfRangeNoOp ==
    [][(lastOp'.op = "addEdge"
          /\ (lastOp'.from >= Len(nodes) \/ lastOp'.to >= Len(nodes)))
         => UNCHANGED graphVars]_vars

\* addEdge was called with an in-range source and an out-of-range target on
\* a graph that has edges.
C4_Witness ==
    /\ lastOp.op = "addEdge"
    /\ lastOp.from < Len(nodes)
    /\ lastOp.to >= Len(nodes)
    /\ edge_count > 0

\* C5: for every node index x below nodeCount, inDegree(x) is the number of
\* distinct u whose edge (u, x) was inserted and outDegree(x) the number of
\* distinct v whose edge (x, v) was inserted; a self-loop counts once in each.
C5_Degrees ==
    \A x \in NodeIdx :
        /\ in_degree(self, x) = Cardinality({u \in Indices : <<u, x>> \in requested})
        /\ out_degree(self, x) = Cardinality({v \in Indices : <<x, v>> \in requested})

\* A node with a self-loop, one more incoming and one more outgoing edge.
C5_Witness ==
    \E x \in NodeIdx :
        /\ <<x, x>> \in requested
        /\ in_degree(self, x) = 2
        /\ out_degree(self, x) = 2

\* C6: the label-to-index mapping is a bijection between the inserted labels
\* and 0..nodeCount-1: indexOf(labelOf(i)) = i, labelOf(indexOf(l)) = l, no
\* two indices carry the same label, and both adjacency tables have exactly
\* nodeCount entries.
C6_LabelIndexBijection ==
    /\ \A i \in NodeIdx :
          /\ node_id(self, i).some
          /\ node_idx(self, node_id(self, i).val) = [some |-> TRUE, val |-> i]
    /\ \A l \in DOMAIN firstIdx :
          /\ node_idx(self, l).some
          /\ node_id(self, node_idx(self, l).val) = [some |-> TRUE, val |-> l]
    /\ \A l \in Labels \ DOMAIN firstIdx : ~node_idx(self, l).some
    /\ \A i \in NodeIdx, j \in NodeIdx : nodes[i + 1] = nodes[j + 1] => i = j
    /\ Len(adj) = node_count(self)
    /\ Len(rev_adj) = node_count(self)

\* Every label has been inserted, the last call being an addNode, on a
\* graph with edges.
C6_Witness ==
    /\ lastOp.op = "addNode"
    /\ DOMAIN firstIdx = Labels
    /\ Len(nodes) = NumLabels
    /\ edge_count > 0

\* C7: importSnapshot(exportSnapshot(g)) has the same nodeCount, the same
\* edgeCount, the same label at every index and the same set of edges as g.
C7_RoundTrip ==
    [][(lastOp.op = "toJson" /\ lastOp'.op = "fromJson"
          /\ lastOp'.snapshot = lastOp.ret)
         => /\ Len(nodes') = Len(nodes)
            /\ edge_count' = edge_count
            /\ nodes' = nodes
            /\ EdgeSet(adj') = EdgeSet(adj)]_vars

\* The snapshot just imported is the export of a graph of three nodes and
\* three edges, one of them a self-loop.
C7_Witness ==
    /\ lastOp.op = "fromJson"
    /\ lastOp.snapshot = to_json(self)
    /\ Len(nodes) = 3
    /\ edge_count = 3
    /\ \E u \in NodeIdx : contains(adj[u + 1], u)

\* u occurs in s at an earlier position than v.
precedes(s, u, v) == \E i \in 1..Len(s), j \in 1..Len(s) : i < j /\ s[i] = u /\ s[j] = v

SortReturned == lastOp.op = "topologicalSort" /\ lastOp.done

\* C8: whenever topologicalSort returns an ordering, for every edge (u, v)
\* inserted into the graph u appears at an earlier position than v; with
\* edges a->b, a->c, b->c, a comes before b and b before c.
C8_SourceBeforeTarget ==
    (SortReturned /\ lastOp.ret.some)
        => \A e \in requested : precedes(lastOp.ret.val, e[1], e[2])

\* The ordering returned for the graph with edges a->b, a->c, b->c.
C8_Witness ==
    /\ SortReturned
    /\ lastOp.ret.some
    /\ requested = {<<0, 1>>, <<0, 2>>, <<1, 2>>}
    /\ precedes(lastOp.ret.val, 0, 1)
    /\ precedes(lastOp.ret.val, 1, 2)

RECURSIVE Closure(_, _)
Closure(R, k) ==
    IF k = 0 THEN R
    ELSE Closure(R \cup {<<p[1][1], p[2][2]>> : p \in {q \in R \X R : q[1][2] = q[2][1]}},
                 k - 1)

HasCycle(a) == \E x \in 0..(Len(a) - 1) : <<x, x>> \in Closure(EdgeSet(a), Len(a))

\* C10: isDag returns true if and only if the graph has no directed cycle; a
\* self-loop and a two-node cycle give false, a graph without edges true.
C10_IsDagIffAcyclic ==
    (lastOp.op = "isDag" /\ lastOp.done)
        => /\ lastOp.ret <=> ~HasCycle(adj)
           /\ (\E u \in NodeIdx : contains(adj[u + 1], u)) => ~lastOp.ret
           /\ (\E u \in NodeIdx, v \in NodeIdx :
                  u # v /\ contains(adj[u + 1], v) /\ contains(adj[v + 1], u))
                 => ~lastOp.ret
           /\ edge_count = 0 => lastOp.ret

\* isDag returned false on a graph whose only cycle runs through two nodes.
C10_Witness ==
    /\ lastOp.op = "isDag"
    /\ lastOp.done
    /\ ~lastOp.ret
    /\ Len(nodes) = 3
    /\ \A u \in NodeIdx : ~contains(adj[u + 1], u)
    /\ \E u \in NodeIdx, v \in NodeIdx :
          u # v /\ contains(adj[u + 1], v) /\ contains(adj[v + 1], u)

\* C11: topologicalSort returns the cyclic signal exactly when isDag is
\* false on the same graph; when isDag is true it returns a sequence of
\* length nodeCount in which every index 0..nodeCount-1 occurs exactly once
\* (the empty sequence for the empty graph).
C11_SortAgreesWithIsDag ==
    /\ (SortReturned /\ dagSeen # "unknown")
          => (lastOp.ret.some <=> dagSeen = "dag")
    /\ (SortReturned /\ lastOp.ret.some)
          => /\ Len(lastOp.ret.val) = node_count(self)
             /\ \A i \in NodeIdx :
                   Cardinality({k \in 1..Len(lastOp.ret.val) : lastOp.ret.val[k] = i}) = 1
    /\ (SortReturned /\ node_count(self) = 0) => lastOp.ret = [some |-> TRUE, val |-> <<>>]

\* isDag returned true and then topologicalSort returned an ordering, on a
\* graph with an isolated node and an edge.
C11_Witness ==
    /\ SortReturned
    /\ dagSeen = "dag"
    /\ lastOp.ret.some
    /\ edge_count > 0
    /\ \E i \in NodeIdx : adj[i + 1] = <<>> /\ rev_adj[i + 1] = <<>>

\* No entry occurs twice in v.
NoDup(v) == \A i \in 1..Len(v), j \in 1..Len(v) : v[i] = v[j] => i = j

\* The pairs of a snapshot's edge list whose two indices are below n.
InRangePairs(snapshot, n) == {e \in Range(snapshot.edges) : e[1] < n /\ e[2] < n}

\* C12: for every parseable snapshot importSnapshot returns a graph in which
\* every edge entry with an index out of range for the rebuilt node set and
\* every repeated entry has been dropped: edgeCount is the number of distinct
\* in-range pairs of the snapshot, these are the edges, and the adjacency and
\* no-duplicate invariants hold.
C12_ImportDropsBadEdges ==
    lastOp.op = "fromJson"
        => /\ edge_count = Cardinality(InRangePairs(lastOp.snapshot, node_count(self)))
           /\ EdgeSet(adj) = InRangePairs(lastOp.snapshot, node_count(self))
           /\ \A u \in NodeIdx, v \in NodeIdx :
                 contains(adj[u + 1], v) <=> contains(rev_adj[v + 1], u)
           /\ \A u \in NodeIdx : NoDup(adj[u + 1]) /\ NoDup(rev_adj[u + 1])

\* A snapshot of two nodes was imported whose edge list holds an in-range
\* pair followed by a pair that was dropped (a repeat or out of range).
C12_Witness ==
    /\ lastOp.op = "fromJson"
    /\ Len(lastOp.snapshot.nodes) = 2
    /\ Len(nodes) = 2
    /\ Len(lastOp.snapshot.edges) = 2
    /\ lastOp.snapshot.edges[1] \in InRangePairs(lastOp.snapshot, 2)
    /\ edge_count = 1

\* C13: a query with an index >= nodeCount or a label never inserted changes
\* no state and answers absent: labelOf and indexOf return none, outDegree
\* and inDegree 0, successors and predecessors the empty sequence.
C13_AbsentQueries ==
    /\ []((lastOp.op = "queryIndex" /\ lastOp.node >= node_count(self))
            => /\ ~lastOp.nodeId.some
               /\ lastOp.outDegree = 0
               /\ lastOp.inDegree = 0
               /\ lastOp.successors = <<>>
               /\ lastOp.predecessors = <<>>)
    /\ []((lastOp.op = "queryLabel" /\ lastOp.id \notin DOMAIN firstIdx)
            => ~lastOp.nodeIdx.some)
    /\ [][lastOp'.op \in {"queryIndex", "queryLabel"} => UNCHANGED graphVars]_vars

\* A graph with edges was queried with an out-of-range index.
C13_Witness ==
    /\ lastOp.op = "queryIndex"
    /\ lastOp.node >= node_count(self)
    /\ node_count(self) >= 2
    /\ edge_count > 0

\* The total number of entries of the lists of a.
RECURSIVE TotalLen(_, _)
TotalLen(a, n) == IF n = 0 THEN 0 ELSE TotalLen(a, n - 1) + Len(a[n])

\* C14: no forward list and no reverse list contains the same index twice,
\* and edgeCount is the total number of entries of the forward lists and of
\* the reverse lists; a self-loop is accepted and counted as one edge.
C14_NoDuplicateEdges ==
    /\ \A u \in NodeIdx : NoDup(adj[u + 1]) /\ NoDup(rev_adj[u + 1])
    /\ edge_count = TotalLen(adj, Len(adj))
    /\ edge_count = TotalLen(rev_adj, Len(rev_adj))
    /\ \A u \in NodeIdx :
          <<u, u>> \in requested
              => /\ Cardinality({k \in 1..Len(adj[u + 1]) : adj[u + 1][k] = u}) = 1
                 /\ Cardinality({k \in 1..Len(rev_adj[u + 1]) : rev_adj[u + 1][k] = u}) = 1

\* addEdge was just called for an edge already present, on a graph of two
\* edges, one of them a self-loop.
C14_Witness ==
    /\ lastOp.op = "addEdge"
    /\ lastOp.from < Len(nodes)
    /\ lastOp.to < Len(nodes)
    /\ adj[lastOp.from + 1][Len(adj[lastOp.from + 1])] # lastOp.to
    /\ \E u \in NodeIdx : <<u, u>> \in requested
    /\ edge_count = 2

\* a is an initial segment of b.
IsPrefix(a, b) == Len(a) <= Len(b) /\ SubSeq(b, 1, Len(a)) = a

\* C15: across any addNode or addEdge step nodeCount and edgeCount do not
\* decrease, the label at every assigned index and the index of every
\* inserted label stay the same, and every forward and reverse list keeps
\* its previous contents as a prefix.
C15_GrowsOnly ==
    [][lastOp'.op \in {"addNode", "addEdge"}
         => /\ Len(nodes') >= Len(nodes)
            /\ edge_count' >= edge_count
            /\ IsPrefix(nodes, nodes')
            /\ \A l \in DOMAIN node_index :
                  l \in DOMAIN node_index' /\ node_index'[l] = node_index[l]
            /\ Len(adj') >= Len(adj)
            /\ Len(rev_adj') >= Len(rev_adj)
            /\ \A i \in 1..Len(adj) : IsPrefix(adj[i], adj'[i])
            /\ \A i \in 1..Len(rev_adj) : IsPrefix(rev_adj[i], rev_adj'[i])]_vars

\* addEdge appended a second neighbour to a forward list and a second
\* source to a reverse list.
C15_Witness ==
    /\ lastOp.op = "addEdge"
    /\ lastOp.from < Len(nodes)
    /\ lastOp.to < Len(nodes)
    /\ Len(adj[lastOp.from + 1]) = 2
    /\ adj[lastOp.from + 1][2] = lastOp.to
    /\ Len(rev_adj[lastOp.to + 1]) = 2
    /\ rev_adj[lastOp.to + 1][2] = lastOp.from

\* C17: topologicalSort and isDag are read-only: every step of either call,
\* on acyclic and cyclic graphs alike, leaves the label list, the forward
\* and reverse lists, nodeCount and edgeCount as they were, so inDegree of
\* every node is the same before and after.
C17_EngineReadOnly ==
    [][lastOp'.op \in {"topologicalSort", "isDag"}
         => /\ UNCHANGED graphVars
            /\ node_count(self)' = node_count(self)
            /\ \A x \in Indices : in_degree(self, x)' = in_degree(self, x)]_vars

\* topologicalSort returned the cyclic signal on a graph of three edges.
C17_Witness ==
    /\ SortReturned
    /\ ~lastOp.ret.some
    /\ edge_count = 3
    /\ \E x \in NodeIdx : in_degree(self, x) = 2

\* C18: the Kahn loop terminates on every graph: no node is on the worklist
\* or in the output twice or in both, no working counter is below zero,
\* every iteration outputs one more node, an iteration or the exit is always
\* possible, and the loop exits with an empty worklist after at most
\* nodeCount removals.
C18_KahnTerminates ==
    /\ [](pc = "kahn"
            => /\ NoDup(order)
               /\ NoDup(queue)
               /\ Range(order) \cap Range(queue) = {}
               /\ \A i \in 1..Len(indeg) : indeg[i] >= 0
               /\ Len(order) + Len(queue) <= node_count(self)
               /\ ENABLED (KahnStep \/ KahnReturn))
    /\ [][(pc = "kahn" /\ pc' = "kahn") => Len(order') = Len(order) + 1]_vars
    /\ [][(pc = "kahn" /\ pc' = "idle")
            => queue = <<>> /\ Len(order) <= node_count(self)]_vars

\* The loop has emptied its worklist on a cyclic graph: some but not all of
\* the three nodes were output.
C18_Witness ==
    /\ pc = "kahn"
    /\ queue = <<>>
    /\ node_count(self) = 3
    /\ Len(order) >= 1
    /\ Len(order) < node_count(self)

\* The step imports the snapshot the previous call exported.
RoundTripStep ==
    /\ lastOp.op = "toJson"
    /\ lastOp'.op = "fromJson"
    /\ lastOp'.snapshot = lastOp.ret

\* v is strictly ascending.
Ascending(v) == \A i \in 1..Len(v), j \in 1..Len(v) : i < j => v[i] < v[j]

\* C19 as stated: importSnapshot(exportSnapshot(g)) has, for every index i,
\* the same successors(i) sequence and the same predecessors(i) sequence as
\* g, element order included.
C19_RoundTripKeepsOrder ==
    [][RoundTripStep
         => \A i \in Indices :
               /\ successors(self, i)' = successors(self, i)
               /\ predecessors(self, i)' = predecessors(self, i)]_vars

\* C19 as amended: importSnapshot(exportSnapshot(g)) has, for every index i,
\* the same successors(i) sequence as g, element order included, and the
\* same elements in predecessors(i) as g, listed in ascending index order.
C19_RoundTripSuccessorOrder ==
    [][RoundTripStep
         => \A i \in Indices :
               /\ successors(self, i)' = successors(self, i)
               /\ Range(predecessors(self, i)') = Range(predecessors(self, i))
               /\ Len(predecessors(self, i)') = Len(predecessors(self, i))
               /\ Ascending(predecessors(self, i)')]_vars

\* The export of a graph of three edges was imported; a node of it has two
\* successors listed in descending order and a node has two predecessors.
C19_Witness ==
    /\ lastOp.op = "fromJson"
    /\ lastOp.snapshot = to_json(self)
    /\ edge_count = 3
    /\ \E i \in NodeIdx : Len(successors(self, i)) = 2 /\ ~Ascending(successors(self, i))
    /\ \E i \in NodeIdx : Len(predecessors(self, i)) = 2

\* The labels of v without the repeats, in order of first occurrence.
RECURSIVE FirstOccurrences(_)
FirstOccurrences(v) ==
    IF v = <<>> THEN <<>>
    ELSE LET rest == FirstOccurrences(SubSeq(v, 1, Len(v) - 1))
         IN  IF contains(rest, v[Len(v)]) THEN rest ELSE Append(rest, v[Len(v)])

\* C20 as stated: after importSnapshot(s) of any parseable snapshot,
\* nodeCount is the length of s.nodes and labelOf(i) is s.nodes[i] for every
\* position i, so every edge pair of s.edges in range of s.nodes connects
\* the labels s.nodes[a] and s.nodes[b].
C20_ImportKeepsPositions ==
    lastOp.op = "fromJson"
        => /\ node_count(self) = Len(lastOp.snapshot.nodes)
           /\ \A i \in 0..(Len(lastOp.snapshot.nodes) - 1) :
                 node_id(self, i) = [some |-> TRUE, val |-> lastOp.snapshot.nodes[i + 1]]
           /\ \A e \in InRangePairs(lastOp.snapshot, Len(lastOp.snapshot.nodes)) :
                 e \in EdgeSet(adj)

\* C20 as amended: after importSnapshot(s) of a parseable snapshot only the
\* first occurrence of each label becomes a node: nodeCount is the number of
\* distinct labels of s.nodes and labelOf(i) is the i-th distinct label in
\* order of first occurrence.  When s.nodes repeats no label, nodeCount is
\* the length of s.nodes, labelOf(i) is s.nodes[i], and every in-range pair
\* [a, b] of s.edges connects the labels s.nodes[a] and s.nodes[b].
C20_ImportKeepsFirstOccurrences ==
    lastOp.op = "fromJson"
        => /\ node_count(self) = Cardinality(Range(lastOp.snapshot.nodes))
           /\ \A i \in NodeIdx :
                 node_id(self, i)
                     = [some |-> TRUE, val |-> FirstOccurrences(lastOp.snapshot.nodes)[i + 1]]
           /\ NoDup(lastOp.snapshot.nodes)
                 => /\ node_count(self) = Len(lastOp.snapshot.nodes)
                    /\ \A i \in 0..(Len(lastOp.snapshot.nodes) - 1) :
                          node_id(self, i)
                              = [some |-> TRUE, val |-> lastOp.snapshot.nodes[i + 1]]
                    /\ \A e \in InRangePairs(lastOp.snapshot, Len(lastOp.snapshot.nodes)) :
                          /\ e \in EdgeSet(adj)
                          /\ nodes[e[1] + 1] = lastOp.snapshot.nodes[e[1] + 1]
                          /\ nodes[e[2] + 1] = lastOp.snapshot.nodes[e[2] + 1]

\* A snapshot of two different labels and an edge from the second to the
\* first was imported.
C20_Witness ==
    /\ lastOp.op = "fromJson"
    /\ Len(lastOp.snapshot.nodes) = 2
    /\ NoDup(lastOp.snapshot.nodes)
    /\ <<1, 0>> \in Range(lastOp.snapshot.edges)
    /\ contains(adj[2], 0)

====
